---- MODULE Spec2Model ----
(***************************************************************************)
(* tiny-npu: golden INT8 kernels (python/golden/reference.py), the         *)
(* verification harness (python/tests/framework.py) and the weight packer  *)
(* (python/tools/quantize_pack.py), modelled as state machines.            *)
(*                                                                         *)
(* Each component has its own specification over its own variables:        *)
(*   SpecGemm      gemm_golden applied to bounded INT8 operands            *)
(*   SpecCompare   compare_tensors and TestCase.verify on bounded tensors  *)
(*   SpecHarness   TestSuite.run_all over GEMM cases and the simulator     *)
(*   SpecHarnessShapes   the same over one case of each explored shape     *)
(*   SpecCodec     quantize_tensor and quantize_int8_symmetric             *)
(*   SpecPack      quantize_and_pack and the reader of weights.bin         *)
(*   SpecKernels   softmax_golden, vec_add_golden, vec_mul_golden and      *)
(*                 attention_head_golden on bounded INT8 operands          *)
(* The variables of the other components stay at their idle values.        *)
(***************************************************************************)
EXTENDS Integers, Sequences, FiniteSets, TLC

VARIABLES
    gA,          \* gemm_golden: operand A  [dtype, rows]
    gB,          \* gemm_golden: operand B  [dtype, rows]
    gScale,      \* gemm_golden: scale
    gShift,      \* gemm_golden: shift
    gAccumulate, \* gemm_golden: accumulate
    gPrev,       \* gemm_golden: C_prev (NoTensor or [dtype, rows])
    gRet,        \* gemm_golden: [raised, C]; raised = "pending" before the call
    cA,          \* comparator: first tensor (golden)  [shape, data]
    cB,          \* comparator: second tensor (candidate)  [shape, data]
    cTol,        \* comparator: tolerance
    cRet,        \* compare_tensors: what it returned or raised, and what it printed
    vRet,        \* TestCase.verify on a fresh case: [ret, passed, error_msg]
    hCase,       \* TestSuite.tests: the case objects, in suite order
    hFs,         \* the artifact directories under output_dir, by case name
    hPc,         \* run_all / TestCase.run: the step to execute next
    hIdx,        \* run_all: position of the for loop in self.tests
    hPassed,     \* run_all: passed
    hFailed,     \* run_all: failed_tests
    hGolden,     \* TestCase.run: golden
    hHw,         \* TestCase.run: hw
    hProc,       \* the simulator process of the current run: [state, rc, wrote]
    hLog,        \* history: the steps the current run has executed
    hRan,        \* history: the cases run was called on, this run_all
    hDone,       \* history: the finished runs of this run_all, [case, ret]
    hRaised,     \* history: the step that raised in the last finished run
    hShift,      \* history: the shift the current run passed to gemm_golden
    hRuns,       \* number of run_all calls started
    hSummary,    \* run_all: the printed summary and returned (passed, total)
    qX,          \* codec: the floating tensor  [shape, data]
    qScale,      \* codec: the scale argument of quantize_tensor (NoScale = None)
    qRet,        \* quantize_tensor: [raised, q, scale]
    sRet,        \* quantize_int8_symmetric: [raised, q, scale]
    dRet,        \* dequantize_tensor of what quantize_tensor returned
    pIn,         \* packer: the *.npy files of indir  [name, int8, shape, data]
    pOut,        \* quantize_and_pack: what it raised and wrote
    uRet,        \* unpack of the written weights.bin: [raised, tensors]
    tIn,         \* unpack: a blob that is not what pack wrote  [kind, blob]
    tRet,        \* unpack of that blob: [raised, tensors]
    mIn,         \* softmax_golden: its arguments  [x, causal]
    mRet,        \* softmax_golden: [raised, C]
    vIn,         \* vec_add_golden / vec_mul_golden: their arguments  [a, b]
    addRet,      \* vec_add_golden: [raised, C]
    mulRet,      \* vec_mul_golden: [raised, C]
    aIn,         \* attention_head_golden: its arguments
    aRet         \* attention_head_golden: [raised, C]

gemmVars == <<gA, gB, gScale, gShift, gAccumulate, gPrev, gRet>>
cmpVars == <<cA, cB, cTol, cRet, vRet>>

harnessVars == <<hCase, hFs, hPc, hIdx, hPassed, hFailed, hGolden, hHw, hProc,
                 hLog, hRan, hDone, hRaised, hShift, hRuns, hSummary>>

codecVars == <<qX, qScale, qRet, sRet, dRet>>
packVars == <<pIn, pOut, uRet, tIn, tRet>>
kernelVars == <<mIn, mRet, vIn, addRet, mulRet, aIn, aRet>>

otherThanHarness == <<gemmVars, cmpVars, codecVars, packVars, kernelVars>>

vars == <<gemmVars, cmpVars, harnessVars, codecVars, packVars, kernelVars>>

None == "None"

\* An absent tensor argument (Python None) in the shape of a tensor.
NoTensor == [dtype |-> None, rows |-> <<>>]

-----------------------------------------------------------------------------
(* Bounds of the explored inputs.                                          *)

MaxK == 2        \* inner dimension of the explored GEMM operands
MaxShift == 2    \* largest requantization shift explored
MaxCmpLen == 2   \* length of the compared tensors whose values are explored
MaxCount == 6    \* length of the compared tensors whose mismatches are counted
MaxCases == 2    \* number of cases in the suite
MaxDim == 2      \* largest dimension of the explored floating tensors
MaxTensors == 2  \* number of tensor names in the explored input directories
MaxRuns == 2     \* number of run_all calls (on the same suite or in a new process)

\* INT8 element values the operands are drawn from: both extremes, zero and
\* the units around it.
ElemVals == {-128, -1, 0, 1, 127}

\* Requantization scales: negative, unit, small, one that takes acc*scale past
\* 2^31 for a single INT8 product, and the largest int32.
ScaleVals == {-1, 1, 3, 200000, 2147483647}

-----------------------------------------------------------------------------
(* Fixed-width integer arithmetic of numpy arrays.                         *)

I8Min == -128
I8Max == 127
I32Max == 2147483647
I32Min == -I32Max - 1

\* np.clip(x, lo, hi)
Clip(x, lo, hi) == IF x < lo THEN lo ELSE IF x > hi THEN hi ELSE x

\* ndarray.astype(np.int8) / astype(np.int16) of an integer value: two's
\* complement truncation to w bits (w < 32).
AsType(x, w) == ((x + 2^(w-1)) % 2^w) - 2^(w-1)

\* int32 + int32 of numpy arrays: wraps modulo 2^32, never raises.  (A
\* function, so that each operand is evaluated once.)
AddWrap[x \in Int, y \in Int] ==
    IF x >= 0 /\ y >= 0 /\ x > I32Max - y
    THEN (x - I32Max - 1) + (y - I32Max - 1)
    ELSE IF x < 0 /\ y < 0 /\ x < I32Min - y
    THEN (x + I32Max + 1) + (y + I32Max + 1)
    ELSE x + y

AddI32(x, y) == AddWrap[x, y]

\* The 16-bit halves of an int32 in two's complement, and the int32 they make.
Lo16(x) == x % 65536
Hi16(x) == (x \div 65536) % 65536
FromHalves(hi, lo) ==
    IF hi >= 32768 THEN (hi - 65536) * 65536 + lo ELSE hi * 65536 + lo

\* a * b for 16-bit a and b, as the halves of the 32-bit product (b is taken
\* byte by byte so that no partial product leaves 32 bits).
MulHalves(a, b) ==
    LET p0 == a * (b % 256)
        p1 == a * (b \div 256)
        s == p0 + (p1 % 256) * 256
    IN [hi |-> ((p1 \div 256) + (s \div 65536)) % 65536, lo |-> s % 65536]

\* int32 * int32 of numpy arrays (a Python int operand that fits int32 is
\* taken as int32): the low 32 bits of the product, never raises.
MulI32(x, y) ==
    LET ll == MulHalves(Lo16(x), Lo16(y))
        cross == MulHalves(Hi16(x), Lo16(y)).lo + MulHalves(Lo16(x), Hi16(y)).lo
    IN FromHalves((ll.hi + cross) % 65536, ll.lo)

\* int32 >> s of numpy arrays: arithmetic shift, floor division by 2^s; a
\* shift of the whole width or more leaves the sign.
ShrI32(x, s) == IF s >= 31 THEN (IF x < 0 THEN -1 ELSE 0) ELSE x \div (2^s)

-----------------------------------------------------------------------------
(* Quantization codec.  A floating tensor is [shape, data] with its data in *)
(* integer units; a scale is the rational num/den, so that x / scale is     *)
(* x*den/num exactly (the representation error of float32 is not modelled). *)

Abs(x) == IF x < 0 THEN -x ELSE x

RECURSIVE SeqMax(_)
\* np.max of a non-empty array
SeqMax(q) ==
    IF Len(q) = 1 THEN q[1]
    ELSE LET m == SeqMax(Tail(q)) IN IF q[1] >= m THEN q[1] ELSE m

Scale(num, den) == [num |-> num, den |-> den]

\* scale=None
NoScale == Scale(0, 0)

\* Mutant of RoundHalfEven: the quotient truncated toward zero.
RoundTowardZero(p, q) ==
    LET P == IF q < 0 THEN -p ELSE p
        Q == IF q < 0 THEN -q ELSE q
    IN IF P >= 0 THEN P \div Q ELSE -((-P) \div Q)

\* np.round(p / q): the nearest integer, ties to the even one.
RoundHalfEven(p, q) ==
    LET P == IF q < 0 THEN -p ELSE p
        Q == IF q < 0 THEN -q ELSE q
        f == P \div Q
        r == P % Q
    IN IF 2 * r < Q THEN f
       ELSE IF 2 * r > Q THEN f + 1
       ELSE IF f % 2 = 0 THEN f ELSE f + 1

\* np.max(np.abs(x))
MaxAbs(data) == SeqMax([i \in 1..Len(data) |-> Abs(data[i])])

\* np.clip(np.round(x / scale), lo, hi).astype(np.int8), element by element
QuantizeData(data, sc, lo, hi) ==
    [i \in 1..Len(data) |->
        AsType(Clip(RoundHalfEven(data[i] * sc.den, sc.num), lo, hi), 8)]

Quantized(raised, shape, data, sc) ==
    [raised |-> raised, q |-> [shape |-> shape, data |-> data], scale |-> sc]

\* golden/reference.py: quantize_tensor(x, scale) -> (x_q, scale); np.max of
\* an empty array raises ValueError.
quantize_tensor(x, scale) ==
    IF scale = NoScale /\ Len(x.data) = 0
    THEN Quantized("ValueError", <<>>, <<>>, NoScale)
    ELSE LET sc == IF scale = NoScale
                   THEN (IF MaxAbs(x.data) > 0
                         THEN Scale(MaxAbs(x.data), 127) ELSE Scale(1, 1))
                   ELSE scale
         IN Quantized(None, x.shape, QuantizeData(x.data, sc, -128, 127), sc)

\* tools/quantize_pack.py: quantize_int8_symmetric(x) -> (q, scale)
quantize_int8_symmetric(x) ==
    LET max_abs == IF Len(x.data) > 0 THEN MaxAbs(x.data) ELSE 0
        sc == IF max_abs > 0 THEN Scale(max_abs, 127) ELSE Scale(1, 1)
    IN Quantized(None, x.shape, QuantizeData(x.data, sc, -127, 127), sc)

\* A floating value that is not an integer number of units: num/den.
Rational(num, den) == [num |-> num, den |-> den]

Dequantized(raised, shape, data) == [raised |-> raised, shape |-> shape, data |-> data]

\* golden/reference.py: dequantize_tensor(x_q, scale) = x_q.astype(float32) * scale
dequantize_tensor(x_q, scale) ==
    Dequantized(None, x_q.shape,
                [i \in 1..Len(x_q.data) |-> Rational(x_q.data[i] * scale.num, scale.den)])

-----------------------------------------------------------------------------
(* gemm_golden                                                             *)

Int8Tensor(rows) == [dtype |-> "int8", rows |-> rows]

Rows(T) == Len(T.rows)
Cols(T) == Len(T.rows[1])

RECURSIVE DotI32(_, _, _, _)
\* sum over k of A[i,k]*B[k,j], accumulated in int32.
DotI32(Ar, Br, j, k) ==
    IF k = 0 THEN 0
    ELSE AddI32(DotI32(Ar, Br, j, k - 1), MulI32(Ar[k], Br[k][j]))

\* A_i32 @ B_i32
MatMulI32(Ar, Br) ==
    [i \in 1..Len(Ar) |-> [j \in 1..Len(Br[1]) |-> DotI32(Ar[i], Br, j, Len(Br))]]

\* Mutant of Requantize: the shift without the rounding term (truncation).
RequantizeTruncating(acc, scale, shift) ==
    IF shift > 0 THEN ShrI32(MulI32(acc, scale), shift) ELSE MulI32(acc, scale)

\* (acc * scale + (1 << (shift-1))) >> shift, or acc * scale when shift = 0
Requantize(acc, scale, shift) ==
    IF shift > 0
    THEN ShrI32(AddI32(MulI32(acc, scale), 2^(shift - 1)), shift)
    ELSE MulI32(acc, scale)

\* np.clip(rounded, -128, 127).astype(np.int8)
ClampInt8(v) == AsType(Clip(v, I8Min, I8Max), 8)

\* Mutant of Accumulate: C_prev is never added.
AccumulateDropsPrev(prod, accumulate, C_prev) == prod

\* if accumulate and C_prev is not None: acc = acc + C_prev.astype(np.int32)
Accumulate(prod, accumulate, C_prev) ==
    IF accumulate /\ C_prev # NoTensor
    THEN [i \in 1..Len(prod) |-> [j \in 1..Len(prod[i]) |->
              AddI32(prod[i][j], C_prev.rows[i][j])]]
    ELSE prod

gemm_golden(A, B, scale, shift, accumulate, C_prev) ==
    IF A.dtype # "int8" \/ B.dtype # "int8"
    THEN [raised |-> "AssertionError", C |-> NoTensor]
    ELSE LET prod == MatMulI32(A.rows, B.rows)
             acc == Accumulate(prod, accumulate, C_prev)
         IN [raised |-> None,
             C |-> [dtype |-> "int8",
                    rows |-> [i \in 1..Len(acc) |-> [j \in 1..Len(acc[i]) |->
                                 ClampInt8(Requantize(acc[i][j], scale, shift))]]]]
-----------------------------------------------------------------------------
(* Comparator: compare_tensors and TestCase.verify.  A tensor is its shape  *)
(* and its row-major data.                                                  *)

\* np.abs(a.astype(np.int16) - b.astype(np.int16)): the difference and its
\* absolute value are int16.
AbsDiffInt16(x, y) ==
    LET d == AsType(AsType(x, 16) - AsType(y, 16), 16)
    IN AsType(IF d < 0 THEN -d ELSE d, 16)

DiffOf(a, b) == [i \in 1..Len(a.data) |-> AbsDiffInt16(a.data[i], b.data[i])]

\* np.where(diff > tolerance): the mismatching positions in order.
MismatchIdx(diff, tolerance) ==
    SelectSeq([i \in 1..Len(diff) |-> i], LAMBDA i : diff[i] > tolerance)

\* An error message, "" being EmptyMsg.
Msg(kind, n, size, max_diff) == [kind |-> kind, n |-> n, size |-> size, max_diff |-> max_diff]
EmptyMsg == Msg("", 0, 0, 0)

\* The loop that prints the first mismatches,
\*     for i in range(min(5, len(mismatch_idx[0]))):
\*         idx = tuple(m[idx] for m in mismatch_idx)
\* reads idx inside the generator before any assignment to it: the first
\* iteration raises NameError and nothing is printed.
PrintExamples(mismatch_idx) ==
    LET n == IF Len(mismatch_idx) < 5 THEN Len(mismatch_idx) ELSE 5
    IN IF n = 0
       THEN [raised |-> None, examples |-> <<>>]
       ELSE [raised |-> "NameError", examples |-> <<>>]

CmpResult(ret, raised, line, mismatches, max_diff, examples) ==
    [ret |-> ret, raised |-> raised, line |-> line, mismatches |-> mismatches,
     max_diff |-> max_diff, examples |-> examples]

compare_tensors(a, b, tolerance) ==
    IF a.shape # b.shape
    THEN CmpResult("False", None, "FAIL shape", 0, 0, <<>>)
    ELSE LET diff == DiffOf(a, b)
             max_diff == SeqMax(diff)
             idxs == MismatchIdx(diff, tolerance)
             mismatches == Len(idxs)
         IN IF max_diff <= tolerance
            THEN CmpResult("True", None, "PASS", mismatches, max_diff, <<>>)
            ELSE LET loop == PrintExamples(idxs)
                 IN IF loop.raised # None
                    THEN CmpResult(None, loop.raised, "FAIL", mismatches, max_diff,
                                   loop.examples)
                    ELSE CmpResult("False", None, "FAIL", mismatches, max_diff,
                                   loop.examples)

\* TestCase.verify on a case whose fields are self = [passed, error_msg, ...]:
\* the return value and the fields after the call.
verify(self, golden, hw, tolerance) ==
    IF golden.shape # hw.shape
    THEN [ret |-> FALSE, self |-> [self EXCEPT !.error_msg = Msg("Shape mismatch", 0, 0, 0)]]
    ELSE LET diff == DiffOf(golden, hw)
             max_diff == SeqMax(diff)
             mismatches == Len(MismatchIdx(diff, tolerance))
         IN IF max_diff <= tolerance
            THEN [ret |-> TRUE, self |-> [self EXCEPT !.passed = TRUE]]
            ELSE [ret |-> FALSE,
                  self |-> [self EXCEPT !.error_msg =
                               Msg("mismatches", mismatches, Len(golden.data), max_diff)]]

\* TestCase.__init__
NewCase == [passed |-> FALSE, error_msg |-> EmptyMsg]

CmpVals == {-128, -1, 0, 127}
TolVals == {0, 1, 254, 255}

Flat(data) == [shape |-> <<Len(data)>>, data |-> data]

CmpPending == CmpResult("pending", None, "", 0, 0, <<>>)
VerifyPending == [ret |-> FALSE, self |-> NewCase, called |-> FALSE]

-----------------------------------------------------------------------------
(* Verification harness: GEMMTestCase, TestCase.run, TestSuite.run_all.     *)
(* A file is the bytes it holds; an artifact directory is its four files.   *)

\* ndarray.reshape(M, N) of row-major data, and the row-major data of rows.
Reshape(data, M, N) == [i \in 1..M |-> [j \in 1..N |-> data[(i - 1) * N + j]]]
Flatten(rows) ==
    LET M == Len(rows)
        N == IF M = 0 THEN 0 ELSE Len(rows[1])
    IN [k \in 1..(M * N) |-> rows[((k - 1) \div N) + 1][((k - 1) % N) + 1]]

\* ndarray.tofile of an int8 array: one two's complement byte per element;
\* np.fromfile(dtype=np.int8) reads them back.
ToBytes(data) == [i \in 1..Len(data) |-> data[i] % 256]
FromBytes(bytes) == [i \in 1..Len(bytes) |-> AsType(bytes[i], 8)]

File(bytes) == [there |-> TRUE, bytes |-> bytes]
NoFile == [there |-> FALSE, bytes |-> <<>>]
Config(M, K, N, scale, shift) ==
    [there |-> TRUE, M |-> M, K |-> K, N |-> N, scale |-> scale, shift |-> shift]
NoConfig == [there |-> FALSE, M |-> 0, K |-> 0, N |-> 0, scale |-> 0, shift |-> 0]
EmptyDir == [A |-> NoFile, B |-> NoFile, config |-> NoConfig, C_hw |-> NoFile]

\* GEMMTestCase.__init__ (with TestCase.__init__)
GEMMTestCase(M, K, N, name) ==
    [name |-> name, M |-> M, K |-> K, N |-> N, passed |-> FALSE,
     error_msg |-> EmptyMsg, A |-> NoTensor, B |-> NoTensor]

RECURSIVE CeilLog2(_)
\* int(np.ceil(np.log2(K))) for K >= 1
CeilLog2(K) == IF K <= 1 THEN 0 ELSE 1 + CeilLog2((K + 1) \div 2)

\* Mutant of compute_shift: the logarithm rounded down.
ComputeShiftFloor(self) ==
    (CHOOSE s \in 0..self.K : 2^s <= self.K /\ self.K < 2^(s + 1)) + 1

\* GEMMTestCase.compute_shift
compute_shift(self) == CeilLog2(self.K) + 1

\* GEMMTestCase.run_golden
run_golden(self) == gemm_golden(self.A, self.B, 1, compute_shift(self), FALSE, NoTensor)

NoSummary == [printed |-> FALSE, passed |-> 0, total |-> 0, failed |-> <<>>]

NoProc == [state |-> "none", rc |-> 0, wrote |-> FALSE]

\* The floating values np.random.randn(...) * 0.5 is drawn from: element i
\* of a drawn tensor is i times a value of this set, so that the elements of
\* a tensor differ.
RandVals == {1}

\* What the simulator may write to C_hw.bin: the bytes of [[127]], of
\* [[-128]], and two bytes where M*N = 1 are expected.
HwOutputs == {<<127>>, <<128>>, <<0, 0>>}

\* test.run returned `ret` to the for loop of run_all: count it or list the
\* case as failed, and move to the next case.  The locals of run are gone.
ReturnToRunAll(self, ret, raised, log) ==
    /\ hCase' = [hCase EXCEPT ![hIdx] = self]
    /\ hPassed' = IF ret THEN hPassed + 1 ELSE hPassed
    /\ hFailed' = IF ret THEN hFailed ELSE Append(hFailed, self.name)
    /\ hIdx' = hIdx + 1
    /\ hPc' = "loop"
    /\ hGolden' = NoTensor
    /\ hHw' = Flat(<<>>)
    /\ hLog' = log
    /\ hDone' = Append(hDone, [case |-> hIdx, ret |-> ret])
    /\ hRaised' = raised

\* Mutant of Except: False is returned without recording the message.
ExceptDropsMessage(self, e, step, log) == ReturnToRunAll(self, FALSE, step, log)

\* except Exception as e: self.error_msg = str(e); return False
Except(self, e, step, log) ==
    ReturnToRunAll([self EXCEPT !.error_msg = Msg(e, 0, 0, 0)], FALSE, step, log)

\* run_all up to the for loop.
RunAll ==
    /\ hPc \in {"idle", "done"}
    /\ hRuns < MaxRuns
    /\ hRuns' = hRuns + 1
    /\ hPassed' = 0
    /\ hFailed' = <<>>
    /\ hIdx' = 1
    /\ hPc' = "loop"
    /\ hRan' = <<>>
    /\ hDone' = <<>>
    /\ hSummary' = NoSummary
    /\ UNCHANGED <<hCase, hFs, hGolden, hHw, hProc, hLog, hRaised>>
    /\ UNCHANGED hShift
    /\ UNCHANGED otherThanHarness

\* The next iteration of the for loop: test.run(sim_path, output_dir /
\* test.name, tolerance) up to and including self.generate_inputs.  The
\* directory or its files may fail to be written (OSError).
GenerateInputs ==
    /\ hPc = "loop"
    /\ hIdx <= Len(hCase)
    /\ hRan' = Append(hRan, hIdx)
    /\ \E a \in RandVals, b \in RandVals, written \in BOOLEAN :
          LET self == hCase[hIdx]
              A == quantize_tensor([shape |-> <<self.M, self.K>>,
                                    data |-> [i \in 1..(self.M * self.K) |-> a * i]], NoScale).q
              B == quantize_tensor([shape |-> <<self.K, self.N>>,
                                    data |-> [i \in 1..(self.K * self.N) |-> b * i]], NoScale).q
              self2 == [self EXCEPT !.A = Int8Tensor(Reshape(A.data, self.M, self.K)),
                                    !.B = Int8Tensor(Reshape(B.data, self.K, self.N))]
              log == <<"generate_inputs">>
          IN IF written
             THEN /\ hFs' = [hFs EXCEPT ![self.name] =
                                [@ EXCEPT !.A = File(ToBytes(A.data)),
                                          !.B = File(ToBytes(B.data)),
                                          !.config = Config(self.M, self.K, self.N, 1,
                                                            compute_shift(self))]]
                  /\ hCase' = [hCase EXCEPT ![hIdx] = self2]
                  /\ hLog' = log
                  /\ hRaised' = None
                  /\ hPc' = "golden"
                  /\ hProc' = NoProc
                  /\ UNCHANGED <<hIdx, hPassed, hFailed, hDone, hGolden, hHw>>
             ELSE /\ Except(self2, "OSError", "generate_inputs", log)
                  /\ hProc' = NoProc
                  /\ UNCHANGED hFs
    /\ UNCHANGED <<hRuns, hSummary>>
    /\ hShift' = 0
    /\ UNCHANGED otherThanHarness

\* golden = self.run_golden()
RunGolden ==
    /\ hPc = "golden"
    /\ LET self == hCase[hIdx]
           r == run_golden(self)
           log == Append(hLog, "run_golden")
       IN IF r.raised # None
          THEN Except(self, r.raised, "run_golden", log)
          ELSE /\ hGolden' = r.C
               /\ hLog' = log
               /\ hPc' = "sim"
               /\ UNCHANGED <<hCase, hIdx, hPassed, hFailed, hDone, hRaised, hHw>>
    /\ UNCHANGED <<hFs, hProc, hRan, hRuns, hSummary>>
    /\ hShift' = compute_shift(hCase[hIdx])
    /\ UNCHANGED otherThanHarness

\* hw = self.run_simulation(...): subprocess.run starts gemm_test, or fails
\* to start it (the executable is missing).
SimInvoke ==
    /\ hPc = "sim"
    /\ \E started \in BOOLEAN :
          LET log == Append(Append(hLog, "run_simulation"), "subprocess.run")
          IN IF started
             THEN /\ hProc' = [state |-> "running", rc |-> 0, wrote |-> FALSE]
                  /\ hLog' = log
                  /\ hPc' = "simwait"
                  /\ UNCHANGED <<hCase, hIdx, hPassed, hFailed, hDone, hRaised,
                                 hGolden, hHw>>
             ELSE /\ Except(hCase[hIdx], "FileNotFoundError", "run_simulation", log)
                  /\ UNCHANGED hProc
    /\ UNCHANGED <<hFs, hRan, hRuns, hSummary>>
    /\ UNCHANGED hShift
    /\ UNCHANGED otherThanHarness

\* The simulator process ends: any exit code, with or without writing
\* C_hw.bin into the directory it was given.  (A simulator that never ends
\* leaves subprocess.run, which is given no timeout, blocked.)
SimExit ==
    /\ hPc = "simwait"
    /\ \E rc \in {0, 1}, wrote \in BOOLEAN :
          /\ hProc' = [state |-> "exited", rc |-> rc, wrote |-> wrote]
          /\ IF wrote
             THEN \E out \in HwOutputs :
                     hFs' = [hFs EXCEPT ![hCase[hIdx].name].C_hw = File(out)]
             ELSE UNCHANGED hFs
    /\ hPc' = "simret"
    /\ UNCHANGED <<hCase, hIdx, hPassed, hFailed, hGolden, hHw, hLog, hRan, hDone,
                   hRaised, hRuns, hSummary>>
    /\ UNCHANGED hShift
    /\ UNCHANGED otherThanHarness

\* run_simulation after subprocess.run returned: the exit code check, then
\* np.fromfile(output_dir / "C_hw.bin") and reshape(M, N).
SimRead ==
    /\ hPc = "simret"
    /\ LET self == hCase[hIdx]
           f == hFs[self.name].C_hw
       IN IF hProc.rc # 0
          THEN Except(self, "Simulation failed", "run_simulation", hLog)
          ELSE IF ~f.there
          THEN Except(self, "FileNotFoundError", "run_simulation", hLog)
          ELSE IF Len(f.bytes) # self.M * self.N
          THEN Except(self, "cannot reshape", "run_simulation",
                      Append(hLog, "read C_hw.bin"))
          ELSE /\ hHw' = [shape |-> <<self.M, self.N>>, data |-> FromBytes(f.bytes)]
               /\ hLog' = Append(hLog, "read C_hw.bin")
               /\ hPc' = "verify"
               /\ UNCHANGED <<hCase, hIdx, hPassed, hFailed, hDone, hRaised, hGolden>>
    /\ UNCHANGED <<hFs, hProc, hRan, hRuns, hSummary>>
    /\ UNCHANGED hShift
    /\ UNCHANGED otherThanHarness

\* result = self.verify(golden, hw, tolerance); return result
Verify ==
    /\ hPc = "verify"
    /\ LET self == hCase[hIdx]
           golden == [shape |-> <<Rows(hGolden), Cols(hGolden)>>,
                      data |-> Flatten(hGolden.rows)]
           r == verify([passed |-> self.passed, error_msg |-> self.error_msg],
                       golden, hHw, 0)
       IN ReturnToRunAll([self EXCEPT !.passed = r.self.passed,
                                      !.error_msg = r.self.error_msg],
                         r.ret, None, Append(hLog, "verify"))
    /\ UNCHANGED <<hFs, hProc, hRan, hRuns, hSummary>>
    /\ UNCHANGED hShift
    /\ UNCHANGED otherThanHarness

\* run_all after the for loop: the summary and return passed, len(self.tests)
Summary ==
    /\ hPc = "loop"
    /\ hIdx > Len(hCase)
    /\ hSummary' = [printed |-> TRUE, passed |-> hPassed, total |-> Len(hCase),
                    failed |-> hFailed]
    /\ hPc' = "done"
    /\ hLog' = <<>>
    /\ hRaised' = None
    /\ hProc' = NoProc
    /\ UNCHANGED <<hCase, hFs, hIdx, hPassed, hFailed, hGolden, hHw, hRan, hDone, hRuns>>
    /\ hShift' = 0
    /\ UNCHANGED otherThanHarness

\* A new process builds the same suite again: fresh case objects over the
\* artifact directories the earlier process left behind.
NewProcess ==
    /\ hPc = "done"
    /\ hRuns < MaxRuns
    /\ hCase' = [i \in 1..Len(hCase) |->
                    GEMMTestCase(hCase[i].M, hCase[i].K, hCase[i].N, hCase[i].name)]
    /\ hPc' = "idle"
    /\ hSummary' = NoSummary
    /\ hIdx' = 1 /\ hPassed' = 0 /\ hFailed' = <<>>
    /\ hRan' = <<>> /\ hDone' = <<>>
    /\ UNCHANGED <<hFs, hGolden, hHw, hProc, hLog, hRaised, hRuns>>
    /\ UNCHANGED hShift
    /\ UNCHANGED otherThanHarness

-----------------------------------------------------------------------------
(* Weight packer: tools/quantize_pack.py.  weights.bin is a sequence of    *)
(* cells: the 20 header bytes, the manifest (one cell per JSON value of the *)
(* entries, in the order json.dumps writes them), the payload bytes.        *)

\* b"TNPUWGT1"
MAGIC == <<84, 78, 80, 85, 87, 71, 84, 49>>

\* struct.pack("<I", n) for 0 <= n < 2^32
U32LE(n) ==
    <<n % 256, (n \div 256) % 256, (n \div 65536) % 256, (n \div 16777216) % 256>>

\* struct.pack("<8sIII", MAGIC, version, count, manifest_len)
Header(version, count, manifest_len) ==
    MAGIC \o U32LE(version) \o U32LE(count) \o U32LE(manifest_len)

RECURSIVE Size(_)
\* arr.size: the product of arr.shape (1 for a 0-d array)
Size(shape) == IF shape = <<>> THEN 1 ELSE Head(shape) * Size(Tail(shape))

\* A *.npy file of indir: its stem, whether its name ends with .int8.npy,
\* and the array it holds.
NpyFile(name, int8, shape, data) ==
    [name |-> name, int8 |-> int8, shape |-> shape, data |-> data]

RECURSIVE Sorted(_)
\* sorted(...): the files by ascending name
Sorted(files) ==
    IF files = {} THEN <<>>
    ELSE LET f == CHOOSE g \in files : \A h \in files : g.name <= h.name
         IN <<f>> \o Sorted(files \ {f})

\* sorted(p for p in src.glob("*.npy") if not p.name.endswith(".int8.npy"))
tensor_files(dir) == Sorted({f \in dir : ~f.int8})

\* manifest["tensors"][name]
Entry(name, shape, scale, offset, nbytes) ==
    [name |-> name, shape |-> shape, scale |-> scale, offset |-> offset,
     nbytes |-> nbytes]

\* The locals of the loop before its first iteration.
PackStart == [payload |-> <<>>, offset |-> 0, tensors |-> <<>>, saved |-> <<>>]

\* Mutant of PackTensor: the offset is not advanced.
PackTensorOffsetKept(st, t) ==
    LET r == quantize_int8_symmetric([shape |-> t.shape, data |-> t.data])
        raw == ToBytes(r.q.data)
    IN [payload |-> st.payload \o raw,
        offset |-> st.offset,
        tensors |-> Append(st.tensors,
                           Entry(t.name, t.shape, r.scale, st.offset, Len(raw))),
        saved |-> Append(st.saved, [name |-> t.name, q |-> r.q])]

\* Mutant of PackTensor: the bytes of a tensor are written last element first.
PackTensorLastByteFirst(st, t) ==
    LET r == quantize_int8_symmetric([shape |-> t.shape, data |-> t.data])
        raw == ToBytes(r.q.data)
        rev == [i \in 1..Len(raw) |-> raw[Len(raw) + 1 - i]]
    IN [payload |-> st.payload \o rev,
        offset |-> st.offset + Len(raw),
        tensors |-> Append(st.tensors,
                           Entry(t.name, t.shape, r.scale, st.offset, Len(raw))),
        saved |-> Append(st.saved, [name |-> t.name, q |-> r.q])]

\* One iteration of the loop over tensor_files: quantize, np.save the INT8
\* array, extend the payload, record the manifest entry, advance the offset.
PackTensor(st, t) ==
    LET r == quantize_int8_symmetric([shape |-> t.shape, data |-> t.data])
        raw == ToBytes(r.q.data)
    IN [payload |-> st.payload \o raw,
        offset |-> st.offset + Len(raw),
        tensors |-> Append(st.tensors,
                           Entry(t.name, t.shape, r.scale, st.offset, Len(raw))),
        saved |-> Append(st.saved, [name |-> t.name, q |-> r.q])]

RECURSIVE PackLoop(_, _, _)
\* for tpath in tensor_files: ...
PackLoop(files, k, st) ==
    IF k > Len(files) THEN st ELSE PackLoop(files, k + 1, PackTensor(st, files[k]))

\* The cells of one manifest entry, in the order of its keys.
EntryJson(e) ==
    <<e.name, Len(e.shape)>> \o e.shape \o <<e.scale.num, e.scale.den, e.offset, e.nbytes>>

RECURSIVE TensorsJson(_)
TensorsJson(tensors) ==
    IF tensors = <<>> THEN <<>>
    ELSE EntryJson(Head(tensors)) \o TensorsJson(Tail(tensors))

\* json.dumps(manifest): "assumptions" (zero_point 0) and then "tensors"
ManifestJson(tensors) == <<0>> \o TensorsJson(tensors)

PackResult(raised, manifest, saved, payload, blob) ==
    [raised |-> raised, manifest |-> manifest, saved |-> saved,
     payload |-> payload, blob |-> blob]

PackPending == PackResult("pending", <<>>, <<>>, <<>>, <<>>)

\* quantize_and_pack(indir, outdir)
quantize_and_pack(dir) ==
    LET files == tensor_files(dir)
    IN IF files = <<>>
       THEN PackResult("FileNotFoundError", <<>>, <<>>, <<>>, <<>>)
       ELSE LET st == PackLoop(files, 1, PackStart)
                manifest_json == ManifestJson(st.tensors)
                header == Header(1, Len(files), Len(manifest_json))
            IN PackResult(None, st.tensors, st.saved, st.payload,
                          header \o manifest_json \o st.payload)

-----------------------------------------------------------------------------
(* unpack(blob): the reader of weights.bin the specification describes     *)
(* (validate magic and version, then the manifest's consistency, then read  *)
(* the tensors).  The repository has no reader under src/.                  *)

\* struct.unpack("<I", b)
FromU32LE(b) == b[1] + 256 * b[2] + 65536 * b[3] + 16777216 * b[4]

Unpacked(raised, tensors) == [raised |-> raised, tensors |-> tensors]

UnpackPending == Unpacked("pending", <<>>)

ParseFailed == [ok |-> FALSE, tensors |-> <<>>]

RECURSIVE ParseTensors(_, _)
\* The n entries written as the cells, or ParseFailed if the cells are not
\* exactly n entries.
ParseTensors(cells, n) ==
    IF n = 0
    THEN (IF cells = <<>> THEN [ok |-> TRUE, tensors |-> <<>>] ELSE ParseFailed)
    ELSE IF Len(cells) < 2 \/ Len(cells) < cells[2] + 6
    THEN ParseFailed
    ELSE LET rank == cells[2]
             e == Entry(cells[1], SubSeq(cells, 3, 2 + rank),
                        Scale(cells[3 + rank], cells[4 + rank]),
                        cells[5 + rank], cells[6 + rank])
             rest == ParseTensors(SubSeq(cells, 7 + rank, Len(cells)), n - 1)
         IN IF rest.ok
            THEN [ok |-> TRUE, tensors |-> <<e>> \o rest.tensors]
            ELSE ParseFailed

\* The manifest cells as the dict json.loads gives.
ParseManifest(cells, count) ==
    IF cells = <<>> \/ cells[1] # 0
    THEN ParseFailed
    ELSE ParseTensors(Tail(cells), count)

\* Mutant of Partitions: the entries are contiguous from 0, the payload may
\* be longer than they account for.
PartitionsContiguous(tensors, payload_len) ==
    /\ \A i \in 1..Len(tensors) :
          /\ tensors[i].nbytes = Size(tensors[i].shape)
          /\ tensors[i].offset =
                (IF i = 1 THEN 0 ELSE tensors[i - 1].offset + tensors[i - 1].nbytes)
    /\ payload_len >=
          (IF tensors = <<>> THEN 0
           ELSE tensors[Len(tensors)].offset + tensors[Len(tensors)].nbytes)

\* offsets/lengths partition the payload exactly
Partitions(tensors, payload_len) ==
    /\ \A i \in 1..Len(tensors) :
          /\ tensors[i].nbytes = Size(tensors[i].shape)
          /\ tensors[i].offset =
                (IF i = 1 THEN 0 ELSE tensors[i - 1].offset + tensors[i - 1].nbytes)
    /\ payload_len =
          (IF tensors = <<>> THEN 0
           ELSE tensors[Len(tensors)].offset + tensors[Len(tensors)].nbytes)

unpack(blob) ==
    IF Len(blob) < 20 THEN Unpacked("FormatError: header", <<>>)
    ELSE IF SubSeq(blob, 1, 8) # MAGIC THEN Unpacked("FormatError: magic", <<>>)
    ELSE IF FromU32LE(SubSeq(blob, 9, 12)) # 1 THEN Unpacked("FormatError: version", <<>>)
    ELSE LET count == FromU32LE(SubSeq(blob, 13, 16))
             manifest_len == FromU32LE(SubSeq(blob, 17, 20))
         IN IF Len(blob) < 20 + manifest_len
            THEN Unpacked("FormatError: manifest", <<>>)
            ELSE LET m == ParseManifest(SubSeq(blob, 21, 20 + manifest_len), count)
                     payload == SubSeq(blob, 21 + manifest_len, Len(blob))
                 IN IF ~m.ok THEN Unpacked("FormatError: manifest", <<>>)
                    ELSE IF ~Partitions(m.tensors, Len(payload))
                    THEN Unpacked("FormatError: offsets", <<>>)
                    ELSE Unpacked(None,
                            [i \in 1..Len(m.tensors) |->
                                [name |-> m.tensors[i].name,
                                 shape |-> m.tensors[i].shape,
                                 scale |-> m.tensors[i].scale,
                                 data |-> FromBytes(SubSeq(payload,
                                             m.tensors[i].offset + 1,
                                             m.tensors[i].offset + m.tensors[i].nbytes))]])


\* A blob handed to unpack and how it differs from a packed one.
Blob(kind, blob) == [kind |-> kind, blob |-> blob]

NoBlob == Blob("none", <<>>)

\* The blobs that differ from what pack wrote (its manifest, payload and
\* bytes in r) in one respect: another magic or version, with the manifest
\* intact or cut off; an offset or a length of the manifest moved by one; a
\* payload one byte longer or shorter than the manifest accounts for.
Damaged(r) ==
    LET BlobOf(tensors) ==
            Header(1, Len(tensors), Len(ManifestJson(tensors)))
                \o ManifestJson(tensors) \o r.payload
        n == Len(r.manifest)
        first == r.manifest[1]
        last == r.manifest[n]
    IN {Blob("magic", [r.blob EXCEPT ![1] = 116]),
        Blob("magic", [SubSeq(r.blob, 1, 20) EXCEPT ![8] = 50]),
        Blob("version", [r.blob EXCEPT ![9] = 2]),
        Blob("version", [SubSeq(r.blob, 1, 20) EXCEPT ![12] = 1]),
        Blob("offset", BlobOf([r.manifest EXCEPT ![1] =
                                  Entry(first.name, first.shape, first.scale,
                                        first.offset + 1, first.nbytes)])),
        Blob("length", BlobOf([r.manifest EXCEPT ![n] =
                                  Entry(last.name, last.shape, last.scale,
                                        last.offset, last.nbytes + 1)])),
        Blob("longer", r.blob \o <<0>>)}
    \cup (IF r.payload = <<>> THEN {}
          ELSE {Blob("shorter", SubSeq(r.blob, 1, Len(r.blob) - 1))})
-----------------------------------------------------------------------------
(* softmax_golden.  The floating computation is carried out on rationals:   *)
(* np.exp is tabulated to six decimal places (an exponent below the table   *)
(* gives 0, as np.exp gives for the masked entries), the quotient by the    *)
(* row sum and the rounding are exact.                                      *)

\* What a kernel returns: the exception it raised, or None and its output.
Returned(raised, C) == [raised |-> raised, C |-> C]

KernelPending == Returned("pending", NoTensor)

\* Mutant of CausalMask: np.tril(..., k=-1), the entries below the diagonal.
CausalMaskLower(M, N) ==
    [i \in 1..M |-> [j \in 1..N |-> IF j < i THEN -1000000000 ELSE 0]]

\* np.triu(np.ones((M, N)), k=1) * -1e9
CausalMask(M, N) ==
    [i \in 1..M |-> [j \in 1..N |-> IF j > i THEN -1000000000 ELSE 0]]

\* floor(exp(-k) * 10^6) for k = 0, 1, ...
ExpTable ==
    <<1000000, 367879, 135335, 49787, 18315, 6737, 2478, 911, 335, 123, 45, 16,
      6, 2>>

\* np.exp(d) for d <= 0, in millionths
Exp(d) == IF -d < Len(ExpTable) THEN ExpTable[1 - d] ELSE 0

RECURSIVE SeqSum(_)
\* np.sum of a row
SeqSum(q) == IF q = <<>> THEN 0 ELSE q[1] + SeqSum(Tail(q))

\* One row of the output: exp(x - max) / sum, times 127, rounded and clipped.
SoftmaxRow(row) ==
    LET x_max == SeqMax(row)
        exp_x == [j \in 1..Len(row) |-> Exp(row[j] - x_max)]
        total == SeqSum(exp_x)
    IN [j \in 1..Len(row) |->
           AsType(Clip(RoundHalfEven(exp_x[j] * 127, total), 0, I8Max), 8)]

softmax_golden(x, causal) ==
    IF x.dtype # "int8" THEN Returned("AssertionError", NoTensor)
    ELSE LET M == Rows(x)
             N == Cols(x)
             mask == CausalMask(M, N)
             x_f == IF causal
                    THEN [i \in 1..M |-> [j \in 1..N |-> x.rows[i][j] + mask[i][j]]]
                    ELSE x.rows
         IN Returned(None, Int8Tensor([i \in 1..M |-> SoftmaxRow(x_f[i])]))

-----------------------------------------------------------------------------
(* vec_add_golden and vec_mul_golden.  Their operands are [dtype, shape,   *)
(* data] with the data in row-major order, of one or two dimensions, and    *)
(* the arithmetic operators of numpy broadcast them.                        *)

NdTensor(dtype, shape, data) == [dtype |-> dtype, shape |-> shape, data |-> data]

NoNd == NdTensor(None, <<>>, <<>>)

VecReturned(raised, C) == [raised |-> raised, C |-> C]

VecPending == VecReturned("pending", NoNd)

\* A shape with 1 prepended up to two dimensions (numpy's alignment).
Pad2(shape) == IF Len(shape) = 1 THEN <<1>> \o shape ELSE shape

\* Whether numpy can broadcast the two shapes together: in each dimension the
\* extents are equal or one of them is 1.
CanBroadcast(sa, sb) ==
    \A d \in 1..2 :
        Pad2(sa)[d] = Pad2(sb)[d] \/ Pad2(sa)[d] = 1 \/ Pad2(sb)[d] = 1

\* The shape of the result of a broadcast operation.
BroadcastShape(sa, sb) ==
    LET full == [d \in 1..2 |-> IF Pad2(sa)[d] = 1 THEN Pad2(sb)[d] ELSE Pad2(sa)[d]]
    IN IF Len(sa) = 1 /\ Len(sb) = 1 THEN <<full[2]>> ELSE full

\* The element of t that takes part in the result's element (r, c), 1-based.
BroadcastAt(t, r, c) ==
    LET s == Pad2(t.shape)
        rr == IF s[1] = 1 THEN 1 ELSE r
        cc == IF s[2] = 1 THEN 1 ELSE c
    IN t.data[(rr - 1) * s[2] + cc]

\* The pairs of elements of a and b an elementwise operation is applied to,
\* in the row-major order of the broadcast shape.
Broadcast(a, b) ==
    LET s == Pad2(BroadcastShape(a.shape, b.shape))
    IN [k \in 1..(s[1] * s[2]) |->
           LET r == ((k - 1) \div s[2]) + 1
               c == ((k - 1) % s[2]) + 1
           IN [a |-> BroadcastAt(a, r, c), b |-> BroadcastAt(b, r, c)]]

\* Mutant of AddSaturate: the sum cast to int8 without the clip.
AddWrapInt8(x, y) == AsType(AsType(x, 16) + AsType(y, 16), 8)

\* np.clip(a.astype(np.int16) + b.astype(np.int16), -128, 127).astype(np.int8)
AddSaturate(x, y) ==
    AsType(Clip(AsType(AsType(x, 16) + AsType(y, 16), 16), I8Min, I8Max), 8)

\* Mutant of MulShift7: the product divided by 128 toward zero.
MulTowardZero(x, y) ==
    AsType(Clip(RoundTowardZero(AsType(AsType(x, 16) * AsType(y, 16), 16), 128),
                I8Min, I8Max), 8)

\* np.clip((a.astype(np.int16) * b.astype(np.int16)) >> 7, -128, 127).astype(np.int8)
MulShift7(x, y) ==
    AsType(Clip(ShrI32(AsType(AsType(x, 16) * AsType(y, 16), 16), 7),
                I8Min, I8Max), 8)

vec_add_golden(a, b) ==
    IF ~(a.dtype = "int8" /\ b.dtype = "int8") THEN VecReturned("AssertionError", NoNd)
    ELSE IF ~CanBroadcast(a.shape, b.shape) THEN VecReturned("ValueError", NoNd)
    ELSE LET ab == Broadcast(a, b)
         IN VecReturned(None, NdTensor("int8", BroadcastShape(a.shape, b.shape),
                            [k \in 1..Len(ab) |-> AddSaturate(ab[k].a, ab[k].b)]))

vec_mul_golden(a, b) ==
    IF ~(a.dtype = "int8" /\ b.dtype = "int8") THEN VecReturned("AssertionError", NoNd)
    ELSE IF ~CanBroadcast(a.shape, b.shape) THEN VecReturned("ValueError", NoNd)
    ELSE LET ab == Broadcast(a, b)
         IN VecReturned(None, NdTensor("int8", BroadcastShape(a.shape, b.shape),
                            [k \in 1..Len(ab) |-> MulShift7(ab[k].a, ab[k].b)]))

-----------------------------------------------------------------------------
(* attention_head_golden                                                    *)

\* k.T
Transpose(T) ==
    [dtype |-> T.dtype,
     rows |-> [j \in 1..Cols(T) |-> [i \in 1..Rows(T) |-> T.rows[i][j]]]]

\* Mutant of AttentionScores: q @ k.T requantized with the projections' shift.
AttentionScoresShift7(q, k) == gemm_golden(q, Transpose(k), 1, 7, FALSE, NoTensor)

\* scores = gemm_golden(q, k.T, scale=1, shift=4)
AttentionScores(q, k) == gemm_golden(q, Transpose(k), 1, 4, FALSE, NoTensor)

attention_head_golden(x, w_q, w_k, w_v, seq_len, head_dim, causal) ==
    LET q == gemm_golden(x, w_q, 1, 7, FALSE, NoTensor)
        k == gemm_golden(x, w_k, 1, 7, FALSE, NoTensor)
        v == gemm_golden(x, w_v, 1, 7, FALSE, NoTensor)
    IN IF q.raised # None THEN q
       ELSE IF k.raised # None THEN k
       ELSE IF v.raised # None THEN v
       ELSE LET scores == AttentionScores(q.C, k.C)
                probs == softmax_golden(scores.C, causal)
            IN gemm_golden(probs.C, v.C, 1, 7, FALSE, NoTensor)
-----------------------------------------------------------------------------
(* The state of a component that is not exercised.                          *)

GemmPending == [raised |-> "pending", C |-> NoTensor]

GemmIdle ==
    /\ gA = NoTensor /\ gB = NoTensor /\ gScale = 0 /\ gShift = 0
    /\ gAccumulate = FALSE /\ gPrev = NoTensor /\ gRet = GemmPending

CmpIdle ==
    /\ cA = Flat(<<>>) /\ cB = Flat(<<>>) /\ cTol = 0
    /\ cRet = CmpPending /\ vRet = VerifyPending


HarnessIdle ==
    /\ hCase = <<>> /\ hFs = <<>> /\ hPc = "idle"
    /\ hIdx = 1 /\ hPassed = 0 /\ hFailed = <<>>
    /\ hGolden = NoTensor /\ hHw = Flat(<<>>) /\ hProc = NoProc
    /\ hLog = <<>> /\ hRan = <<>> /\ hDone = <<>> /\ hRaised = None
    /\ hRuns = 0 /\ hShift = 0
    /\ hSummary = NoSummary


QuantPending == Quantized("pending", <<>>, <<>>, NoScale)

DequantPending == Dequantized("pending", <<>>, <<>>)

CodecIdle ==
    /\ qX = Flat(<<>>) /\ qScale = NoScale
    /\ qRet = QuantPending /\ sRet = QuantPending /\ dRet = DequantPending

PackIdle ==
    /\ pIn = {} /\ pOut = PackPending /\ uRet = UnpackPending
    /\ tIn = NoBlob /\ tRet = UnpackPending


NoSoftmaxArgs == [x |-> NoTensor, causal |-> FALSE]

NoVecArgs == [a |-> NoNd, b |-> NoNd]

NoAttentionArgs ==
    [x |-> NoTensor, w_q |-> NoTensor, w_k |-> NoTensor, w_v |-> NoTensor,
     seq_len |-> 0, head_dim |-> 0, causal |-> FALSE]

KernelIdle ==
    /\ mIn = NoSoftmaxArgs /\ mRet = KernelPending
    /\ vIn = NoVecArgs /\ addRet = VecPending /\ mulRet = VecPending
    /\ aIn = NoAttentionArgs /\ aRet = KernelPending
-----------------------------------------------------------------------------
(* Inputs and specification of the comparator.                              *)

\* Equal shapes, every value explored.
InitCmpValues ==
    /\ \E n \in 1..MaxCmpLen :
          /\ cA \in {Flat(d) : d \in [1..n -> CmpVals]}
          /\ cB \in {Flat(d) : d \in [1..n -> CmpVals]}
    /\ cTol \in TolVals

\* Equal shapes, up to MaxCount mismatching elements.
InitCmpCounts ==
    /\ \E n \in 1..MaxCount :
          /\ cA = Flat([i \in 1..n |-> 0])
          /\ cB \in {Flat(d) : d \in [1..n -> {0, 2}]}
    /\ cTol \in {0, 1}

\* Different shapes, also of the same size.
InitCmpShapes ==
    /\ cA \in {[shape |-> <<1, 2>>, data |-> <<0, 1>>], [shape |-> <<2>>, data |-> <<0, 1>>]}
    /\ cB \in {[shape |-> <<2, 1>>, data |-> <<0, 1>>], [shape |-> <<1>>, data |-> <<0>>],
               [shape |-> <<2>>, data |-> <<0, 1>>]}
    /\ cTol \in TolVals

InitCompare ==
    /\ GemmIdle /\ HarnessIdle /\ CodecIdle /\ PackIdle /\ KernelIdle
    /\ cRet = CmpPending /\ vRet = VerifyPending
    /\ \/ InitCmpValues
       \/ InitCmpCounts
       \/ InitCmpShapes

CompareTensorsCall ==
    /\ cRet = CmpPending
    /\ cRet' = compare_tensors(cA, cB, cTol)
    /\ UNCHANGED <<cA, cB, cTol, vRet>>
    /\ UNCHANGED <<gemmVars, harnessVars, codecVars, packVars, kernelVars>>

VerifyCall ==
    /\ ~vRet.called
    /\ LET r == verify(NewCase, cA, cB, cTol)
       IN vRet' = [ret |-> r.ret, self |-> r.self, called |-> TRUE]
    /\ UNCHANGED <<cA, cB, cTol, cRet>>
    /\ UNCHANGED <<gemmVars, harnessVars, codecVars, packVars, kernelVars>>

NextCompare == CompareTensorsCall \/ VerifyCall

SpecCompare == InitCompare /\ [][NextCompare]_vars

-----------------------------------------------------------------------------
(* Inputs and specification of gemm_golden.                                 *)

\* Row vector times column vector over every INT8 value explored.
InitGemmValues ==
    /\ \E K \in 1..MaxK :
          /\ gA \in {Int8Tensor(<<r>>) : r \in [1..K -> ElemVals]}
          /\ gB \in {Int8Tensor([k \in 1..K |-> <<c[k]>>]) : c \in [1..K -> ElemVals]}
    /\ gScale \in ScaleVals
    /\ gShift \in 0..MaxShift
    /\ gAccumulate = FALSE
    /\ gPrev = NoTensor

\* The accumulate flag and C_prev in every combination.
InitGemmAccumulate ==
    /\ gA \in {Int8Tensor(<<<<a>>>>) : a \in ElemVals}
    /\ gB \in {Int8Tensor(<<<<b>>>>) : b \in ElemVals}
    /\ gScale \in ScaleVals
    /\ gShift \in 0..MaxShift
    /\ gAccumulate \in BOOLEAN
    /\ gPrev \in {NoTensor} \cup {Int8Tensor(<<<<p>>>>) : p \in ElemVals}

\* Operands of another element type.
InitGemmDtype ==
    /\ gA \in {[dtype |-> d, rows |-> <<<<a>>>>] : d \in {"int8", "int32"}, a \in ElemVals}
    /\ gB \in {[dtype |-> d, rows |-> <<<<b>>>>] : d \in {"int8", "float32"}, b \in ElemVals}
    /\ gScale = 1
    /\ gShift \in 0..MaxShift
    /\ gAccumulate = FALSE
    /\ gPrev = NoTensor

\* A C_prev of another element type, with and without accumulate.
InitGemmPrevDtype ==
    /\ gA \in {Int8Tensor(<<<<a>>>>) : a \in {-1, 1}}
    /\ gB \in {Int8Tensor(<<<<b>>>>) : b \in {1, 127}}
    /\ gScale = 1
    /\ gShift \in 0..MaxShift
    /\ gAccumulate \in BOOLEAN
    /\ gPrev \in {[dtype |-> d, rows |-> <<<<p>>>>] : d \in {"int32", "float32"}, p \in ElemVals}

\* Square operands: [[1,2],[3,4]] against the identity and a dense matrix.
InitGemmSquare ==
    /\ gA = Int8Tensor(<<<<1, 2>>, <<3, 4>>>>)
    /\ gB \in {Int8Tensor(<<<<1, 0>>, <<0, 1>>>>), Int8Tensor(<<<<127, -128>>, <<-1, 127>>>>)}
    /\ gScale \in ScaleVals
    /\ gShift \in 0..MaxShift
    /\ gAccumulate = FALSE
    /\ gPrev = NoTensor

InitGemm ==
    /\ CmpIdle /\ HarnessIdle /\ CodecIdle /\ PackIdle /\ KernelIdle
    /\ gRet = GemmPending
    /\ \/ InitGemmValues
       \/ InitGemmAccumulate
       \/ InitGemmDtype
       \/ InitGemmPrevDtype
       \/ InitGemmSquare

GemmCall ==
    /\ gRet = GemmPending
    /\ gRet' = gemm_golden(gA, gB, gScale, gShift, gAccumulate, gPrev)
    /\ UNCHANGED <<gA, gB, gScale, gShift, gAccumulate, gPrev>>
    /\ UNCHANGED <<cmpVars, harnessVars, codecVars, packVars, kernelVars>>

NextGemm == GemmCall

SpecGemm == InitGemm /\ [][NextGemm]_vars

-----------------------------------------------------------------------------
(* Specification of the harness.                                            *)

\* The names of a suite of n cases, up to renaming: each case reuses an
\* earlier name or takes the next fresh one.
SuiteNames(n) ==
    {s \in [1..n -> 1..n] :
        /\ s[1] = 1
        /\ \A i \in 2..n : \E j \in 1..(i - 1) : s[i] <= s[j] + 1}

InitHarness ==
    /\ GemmIdle /\ CmpIdle /\ CodecIdle /\ PackIdle /\ KernelIdle
    /\ \E n \in 1..MaxCases : \E names \in SuiteNames(n) :
          hCase = [i \in 1..n |-> GEMMTestCase(1, 1, 1, names[i])]
    /\ hFs = [d \in 1..MaxCases |-> EmptyDir]
    /\ hPc = "idle"
    /\ hIdx = 1 /\ hPassed = 0 /\ hFailed = <<>>
    /\ hGolden = NoTensor /\ hHw = Flat(<<>>) /\ hProc = NoProc
    /\ hLog = <<>> /\ hRan = <<>> /\ hDone = <<>> /\ hRaised = None
    /\ hRuns = 0 /\ hShift = 0
    /\ hSummary = NoSummary

NextHarness ==
    \/ RunAll
    \/ GenerateInputs
    \/ RunGolden
    \/ SimInvoke
    \/ SimExit
    \/ SimRead
    \/ Verify
    \/ Summary
    \/ NewProcess

SpecHarness == InitHarness /\ [][NextHarness]_vars


\* One case of every inner dimension K explored (powers of two and others),
\* with one or two rows.
InitHarnessShapes ==
    /\ GemmIdle /\ CmpIdle /\ CodecIdle /\ PackIdle /\ KernelIdle
    /\ \E M \in {1, 2}, K \in {1, 2, 3, 5, 8} : hCase = <<GEMMTestCase(M, K, 1, 1)>>
    /\ hFs = [d \in 1..MaxCases |-> EmptyDir]
    /\ hPc = "idle"
    /\ hIdx = 1 /\ hPassed = 0 /\ hFailed = <<>>
    /\ hGolden = NoTensor /\ hHw = Flat(<<>>) /\ hProc = NoProc
    /\ hLog = <<>> /\ hRan = <<>> /\ hDone = <<>> /\ hRaised = None
    /\ hRuns = 0 /\ hShift = 0
    /\ hSummary = NoSummary

SpecHarnessShapes == InitHarnessShapes /\ [][NextHarness]_vars
-----------------------------------------------------------------------------
(* Specification of the quantization codec: quantize_tensor and            *)
(* quantize_int8_symmetric applied to bounded floating tensors.             *)

\* The values of the explored floating tensors.
FloatVals == {-3, 0, 2}

\* The scale arguments: None, 1.0, 0.01 and -1.0.
CodecScales == {NoScale, Scale(1, 1), Scale(1, 100), Scale(-1, 1)}

TensorsOf(shapes, vals) ==
    UNION {{[shape |-> sh, data |-> d] : d \in [1..Size(sh) -> vals]} : sh \in shapes}

FloatTensors(shapes) == TensorsOf(shapes, FloatVals)

InitCodec ==
    /\ GemmIdle /\ CmpIdle /\ HarnessIdle /\ PackIdle /\ KernelIdle
    \* FloatVals and a pair whose quotient by the computed scale is a tie
    \* (1.0 in a tensor of maximum 254.0)
    /\ qX \in TensorsOf({<<n>> : n \in 0..MaxDim}, FloatVals \cup {1, -254})
    /\ qScale \in CodecScales
    /\ qRet = QuantPending
    /\ sRet = QuantPending
    /\ dRet = DequantPending

\* x_q, scale = quantize_tensor(x, scale)
QuantizeTensorCall ==
    /\ qRet = QuantPending
    /\ qRet' = quantize_tensor(qX, qScale)
    /\ UNCHANGED <<qX, qScale, sRet, dRet>>
    /\ UNCHANGED <<gemmVars, cmpVars, harnessVars, packVars, kernelVars>>

\* q, scale = quantize_int8_symmetric(x)
QuantizeInt8SymmetricCall ==
    /\ sRet = QuantPending
    /\ sRet' = quantize_int8_symmetric(qX)
    /\ UNCHANGED <<qX, qScale, qRet, dRet>>
    /\ UNCHANGED <<gemmVars, cmpVars, harnessVars, packVars, kernelVars>>

\* dequantize_tensor(x_q, scale) on the pair quantize_tensor returned
DequantizeCall ==
    /\ qRet.raised = None
    /\ dRet = DequantPending
    /\ dRet' = dequantize_tensor(qRet.q, qRet.scale)
    /\ UNCHANGED <<qX, qScale, qRet, sRet>>
    /\ UNCHANGED <<gemmVars, cmpVars, harnessVars, packVars, kernelVars>>

NextCodec == QuantizeTensorCall \/ QuantizeInt8SymmetricCall \/ DequantizeCall

SpecCodec == InitCodec /\ [][NextCodec]_vars

-----------------------------------------------------------------------------
(* Specification of the packer: quantize_and_pack on a directory of        *)
(* bounded tensors (indir = outdir, as every caller passes), then the       *)
(* reader on the weights.bin it wrote.                                      *)

\* The shapes of the explored tensors: a 0-d array, an empty vector, a
\* matrix and an empty matrix.
PackShapes == {<<>>, <<0>>, <<1, 2>>, <<0, 3>>}

\* A <name>.int8.npy file an earlier run left in the directory.
StaleInt8 == NpyFile(1, TRUE, <<1>>, <<1>>)

InitPack ==
    /\ GemmIdle /\ CmpIdle /\ HarnessIdle /\ CodecIdle /\ KernelIdle
    /\ \E names \in SUBSET (1..MaxTensors) :
       \E t \in [names -> FloatTensors(PackShapes)] :
       \E stale \in SUBSET {StaleInt8} :
          pIn = {NpyFile(n, FALSE, t[n].shape, t[n].data) : n \in names} \cup stale
    /\ pOut = PackPending
    /\ uRet = UnpackPending
    /\ tIn = NoBlob /\ tRet = UnpackPending

\* quantize_and_pack(indir=datadir, outdir=datadir): the <name>.int8.npy
\* files and weights.bin are written (over those of an earlier call).
QuantizeAndPack ==
    /\ LET r == quantize_and_pack(pIn)
           saved == {NpyFile(r.saved[i].name, TRUE, r.saved[i].q.shape, r.saved[i].q.data) :
                        i \in 1..Len(r.saved)}
       IN /\ pOut' = (IF r.raised = None THEN r ELSE [pOut EXCEPT !.raised = r.raised])
          /\ pIn' = {f \in pIn : ~(f.int8 /\ \E g \in saved : g.name = f.name)} \cup saved
    /\ uRet' = UnpackPending
    /\ tIn' = NoBlob /\ tRet' = UnpackPending
    /\ UNCHANGED <<gemmVars, cmpVars, harnessVars, codecVars, kernelVars>>

\* unpack(weights.bin)
Unpack ==
    /\ pOut.blob # <<>>
    /\ uRet' = unpack(pOut.blob)
    /\ UNCHANGED <<pIn, pOut, tIn, tRet>>
    /\ UNCHANGED <<gemmVars, cmpVars, harnessVars, codecVars, kernelVars>>

\* unpack of a file that is not the weights.bin pack wrote (explored after
\* the unpack of the one it wrote)
UnpackDamaged ==
    /\ pOut.blob # <<>> /\ uRet # UnpackPending /\ tIn = NoBlob
    /\ \E b \in Damaged(pOut) :
          /\ tIn' = b
          /\ tRet' = unpack(b.blob)
    /\ UNCHANGED <<pIn, pOut, uRet>>
    /\ UNCHANGED <<gemmVars, cmpVars, harnessVars, codecVars, kernelVars>>

NextPack == QuantizeAndPack \/ Unpack \/ UnpackDamaged

SpecPack == InitPack /\ [][NextPack]_vars

-----------------------------------------------------------------------------
(* Inputs and specification of the other kernels.                           *)

MatricesOf(dtype, shapes, vals) ==
    UNION {{[dtype |-> dtype, rows |-> r] : r \in [1..sh[1] -> [1..sh[2] -> vals]]}
           : sh \in shapes}

NdTensorsOf(dtypes, shapes, vals) ==
    UNION {{NdTensor(d, sh, data) : d \in dtypes, data \in [1..Size(sh) -> vals]}
           : sh \in shapes}

\* Logits at the extremes of INT8 and two values one apart, in matrices of
\* one row, square, with more rows than columns and more columns than rows;
\* and a matrix of another element type.
InitSoftmax ==
    /\ mIn \in [x : MatricesOf("int8", {<<1, 1>>, <<1, 2>>, <<2, 2>>, <<3, 2>>, <<2, 3>>},
                                {-128, 0, 1, 127})
                    \cup MatricesOf("float32", {<<1, 2>>}, {-128, 0, 1, 127}),
                causal : BOOLEAN]
    /\ vIn = NoVecArgs /\ aIn = NoAttentionArgs

\* Every pair of INT8 values, as two vectors of one element; and operands of
\* [2, 2] against every shape and element type of the second operand.
InitVec ==
    /\ \/ vIn \in [a : {NdTensor("int8", <<1>>, <<x>>) : x \in I8Min..I8Max},
                    b : {NdTensor("int8", <<1>>, <<y>>) : y \in I8Min..I8Max}]
       \/ vIn \in [a : NdTensorsOf({"int8"}, {<<2, 2>>}, {10, 120})
                           \cup NdTensorsOf({"int16"}, {<<1>>}, {10}),
                    b : NdTensorsOf({"int8"}, {<<2, 2>>, <<2>>, <<1, 1>>, <<1, 2>>, <<3>>},
                                    {-128, 10})
                           \cup NdTensorsOf({"float32"}, {<<2, 2>>}, {10})]
    /\ mIn = NoSoftmaxArgs /\ aIn = NoAttentionArgs

\* x[S, H] and weights [H, D] whose projections, scores and probabilities are
\* neither all zero nor all saturated.
InitAttention ==
    /\ \E sh \in {[S |-> 1, H |-> 1, D |-> 1], [S |-> 2, H |-> 1, D |-> 1],
                   [S |-> 2, H |-> 1, D |-> 2]} :
          LET W == MatricesOf("int8", {<<sh.H, sh.D>>}, {64, 127})
          IN aIn \in [x : MatricesOf("int8", {<<sh.S, sh.H>>}, {-128, 16, 32}),
                      w_q : W, w_k : W, w_v : W,
                      seq_len : {sh.S, 0}, head_dim : {sh.D},
                      causal : BOOLEAN]
    /\ mIn = NoSoftmaxArgs /\ vIn = NoVecArgs

InitKernels ==
    /\ GemmIdle /\ CmpIdle /\ HarnessIdle /\ CodecIdle /\ PackIdle
    /\ mRet = KernelPending /\ addRet = VecPending /\ mulRet = VecPending
    /\ aRet = KernelPending
    /\ \/ InitSoftmax
       \/ InitVec
       \/ InitAttention

SoftmaxCall ==
    /\ mIn # NoSoftmaxArgs /\ mRet = KernelPending
    /\ mRet' = softmax_golden(mIn.x, mIn.causal)
    /\ UNCHANGED <<mIn, vIn, addRet, mulRet, aIn, aRet>>
    /\ UNCHANGED <<gemmVars, cmpVars, harnessVars, codecVars, packVars>>

VecAddCall ==
    /\ vIn # NoVecArgs /\ addRet = VecPending
    /\ addRet' = vec_add_golden(vIn.a, vIn.b)
    /\ UNCHANGED <<mIn, mRet, vIn, mulRet, aIn, aRet>>
    /\ UNCHANGED <<gemmVars, cmpVars, harnessVars, codecVars, packVars>>

VecMulCall ==
    /\ vIn # NoVecArgs /\ mulRet = VecPending
    /\ mulRet' = vec_mul_golden(vIn.a, vIn.b)
    /\ UNCHANGED <<mIn, mRet, vIn, addRet, aIn, aRet>>
    /\ UNCHANGED <<gemmVars, cmpVars, harnessVars, codecVars, packVars>>

AttentionCall ==
    /\ aIn # NoAttentionArgs /\ aRet = KernelPending
    /\ aRet' = attention_head_golden(aIn.x, aIn.w_q, aIn.w_k, aIn.w_v,
                                     aIn.seq_len, aIn.head_dim, aIn.causal)
    /\ UNCHANGED <<mIn, mRet, vIn, addRet, mulRet, aIn>>
    /\ UNCHANGED <<gemmVars, cmpVars, harnessVars, codecVars, packVars>>

NextKernels == SoftmaxCall \/ VecAddCall \/ VecMulCall \/ AttentionCall

SpecKernels == InitKernels /\ [][NextKernels]_vars

-----------------------------------------------------------------------------
(* Claims about gemm_golden.  The reference values below are exact          *)
(* integers: products are compared against thresholds by division, so that  *)
(* nothing is computed modulo 2^32.                                         *)

RECURSIVE ExactDot(_, _, _, _)
ExactDot(Ar, Br, j, k) ==
    IF k = 0 THEN 0 ELSE ExactDot(Ar, Br, j, k - 1) + Ar[k] * Br[k][j]

\* The exact dot product of row i of A and column j of B.
ExactAcc(i, j) == ExactDot(gA.rows[i], gB.rows, j, Len(gB.rows))

\* a * s >= T and a * s <= T over the integers (T within 32 bits).
ProdGE(a, s, T) ==
    IF a = 0 THEN 0 >= T
    ELSE IF a > 0 THEN s >= -((-T) \div a)
    ELSE (-s) >= -((-T) \div (-a))
ProdLE(a, s, T) ==
    IF a = 0 THEN 0 <= T
    ELSE IF a > 0 THEN s <= T \div a
    ELSE (-s) <= T \div (-a)

\* b * s <= 2^31 - 1 + c over the integers, for a small c >= 0.
ProdLEPast(b, s, c) ==
    IF b = 0 THEN TRUE
    ELSE LET d == IF b > 0 THEN b ELSE -b
             t == IF b > 0 THEN s ELSE -s
         IN t - (((I32Max % d) + c) \div d) <= I32Max \div d

RoundTerm(shift) == IF shift > 0 THEN 2^(shift - 1) ELSE 0

\* acc*scale plus the rounding term lies in [-2^31, 2^31 - 1].
FitsInt32(acc, scale, shift) ==
    /\ ProdLE(acc, scale, I32Max - RoundTerm(shift))
    /\ ProdLEPast(-acc, scale, RoundTerm(shift) + 1)

\* clamp(floor((acc*scale + 2^(shift-1)) / 2^shift), -128, 127), resp.
\* clamp(acc*scale, -128, 127) when shift = 0, over the integers.
ExactOut(acc, scale, shift) ==
    IF ProdGE(acc, scale, 128 * 2^shift - RoundTerm(shift)) THEN 127
    ELSE IF ProdLE(acc, scale, -128 * 2^shift - RoundTerm(shift)) THEN -128
    ELSE LET r == (acc * scale + RoundTerm(shift)) \div (2^shift)
         IN IF r < -128 THEN -128 ELSE r

GemmReturned == gRet.raised = None
GemmPlain == ~(gAccumulate /\ gPrev # NoTensor)
GemmCells == {<<i, j>> : i \in 1..Len(gRet.C.rows), j \in 1..Len(gRet.C.rows[1])}

C2_GemmSaturatesExact ==
    (gRet # GemmPending /\ gA.dtype = "int8" /\ gB.dtype = "int8" /\ GemmPlain) =>
        /\ GemmReturned
        /\ \A c \in GemmCells :
              gRet.C.rows[c[1]][c[2]] = ExactOut(ExactAcc(c[1], c[2]), gScale, gShift)

GemmAccumulates == gAccumulate /\ gPrev # NoTensor

\* C17: with accumulate = true the value that is scaled, rounded and shifted
\* is the product A x B plus prev, element by element; with accumulate =
\* false the output is that of the product alone, whatever prev is.
C17_AccumulateAddsPrevFirst ==
    (GemmReturned /\ gPrev.dtype \in {None, "int8"}) =>
        \A c \in GemmCells :
            LET acc == IF GemmAccumulates
                       THEN ExactAcc(c[1], c[2]) + gPrev.rows[c[1]][c[2]]
                       ELSE ExactAcc(c[1], c[2])
            IN FitsInt32(acc, gScale, gShift) =>
                  gRet.C.rows[c[1]][c[2]] = ExactOut(acc, gScale, gShift)

\* C17 witness: prev = 127 added to a product of 1 before the shift:
\* (128 + 1) >> 1 = 64, where adding prev after the shift would saturate.
C17_Witness ==
    /\ GemmReturned /\ GemmAccumulates
    /\ gScale = 1 /\ gShift = 1
    /\ ExactAcc(1, 1) = 1 /\ gPrev.rows[1][1] = 127
    /\ gRet.C.rows[1][1] = 64

\* Some tensor operand of the call is not INT8 (prev counts when accumulating).
GemmOperandNotInt8 ==
    \/ gA.dtype # "int8"
    \/ gB.dtype # "int8"
    \/ (gAccumulate /\ gPrev # NoTensor /\ gPrev.dtype # "int8")

\* C18 (as claimed): a GEMM call with an operand (A, B, or prev when
\* accumulating) of an element type other than INT8 raises and returns no
\* output.
C18_NonInt8OperandRejected ==
    (gRet # GemmPending /\ GemmOperandNotInt8) =>
        gRet.raised # None /\ gRet.C = NoTensor

\* What holds: A and B of another element type are rejected.
C18_NonInt8ABRejected ==
    (gRet # GemmPending /\ (gA.dtype # "int8" \/ gB.dtype # "int8")) =>
        gRet.raised = "AssertionError" /\ gRet.C = NoTensor
-----------------------------------------------------------------------------
(* Claims about the comparator.                                             *)

\* The elementwise |golden - candidate| over the integers, its maximum and
\* the number of elements above the tolerance.
ExactDiffs == [i \in 1..Len(cA.data) |-> Abs(cA.data[i] - cB.data[i])]
ExactMaxDiff == SeqMax(ExactDiffs)
ExactMismatches == Cardinality({i \in 1..Len(cA.data) : ExactDiffs[i] > cTol})

CompareCalled == cRet # CmpPending

\* C3 (as claimed): for equal shapes the comparator, compare_tensors and
\* TestCase.verify alike, reports pass exactly when the maximum |golden -
\* candidate| is <= tolerance, and returns a fail result otherwise.
C3_ComparatorPassIff ==
    cA.shape = cB.shape =>
        /\ CompareCalled =>
              /\ cRet.ret \in {"True", "False"}
              /\ cRet.ret = "True" <=> ExactMaxDiff <= cTol
        /\ vRet.called => (vRet.ret <=> ExactMaxDiff <= cTol)

\* C4 (as claimed): when some difference exceeds the tolerance,
\* compare_tensors completes normally with a fail result after reporting the
\* mismatch count and exactly min(5, mismatch count) example coordinates.
C4_FailureReport ==
    (CompareCalled /\ cA.shape = cB.shape /\ ExactMaxDiff > cTol) =>
        /\ cRet.raised = None
        /\ cRet.ret = "False"
        /\ cRet.mismatches = ExactMismatches
        /\ Len(cRet.examples) = (IF ExactMismatches < 5 THEN ExactMismatches ELSE 5)

-----------------------------------------------------------------------------
(* Claims about the harness.                                                *)

\* The harness's own steps are taken whenever they can be; nothing makes the
\* simulator process end.
FairSpecHarness ==
    /\ SpecHarness
    /\ WF_vars(GenerateInputs) /\ WF_vars(RunGolden) /\ WF_vars(SimInvoke)
    /\ WF_vars(SimRead) /\ WF_vars(Verify) /\ WF_vars(Summary)

\* The steps of one run, in the order of TestCase.run.
RunSteps ==
    <<"generate_inputs", "run_golden", "run_simulation", "subprocess.run",
      "read C_hw.bin", "verify">>

IsPrefix(p, q) == Len(p) <= Len(q) /\ \A i \in 1..Len(p) : p[i] = q[i]

\* A run has just returned to run_all.
RunReturned == hPc = "loop" /\ hLog # <<>>
LastRun == hDone[Len(hDone)]
LastCase == hCase[LastRun.case]

\* The names of the cases whose run returned False, in the order of hDone.
FailedNames == 
    LET failed == SelectSeq(hDone, LAMBDA d : ~d.ret)
    IN [k \in 1..Len(failed) |-> hCase[failed[k].case].name]

C5_Safety ==
    /\ hRan = [k \in 1..Len(hRan) |-> k]
    /\ \A k \in 1..Len(hDone) : hDone[k].case = k
    /\ hPc = "done" =>
          /\ Len(hRan) = Len(hCase)
          /\ Len(hDone) = Len(hCase)
          /\ hSummary.printed
          /\ hSummary.total = Len(hCase)
          /\ hSummary.passed + Len(hSummary.failed) = hSummary.total
          /\ hSummary.passed = Cardinality({k \in 1..Len(hDone) : hDone[k].ret})
          /\ hSummary.failed = FailedNames

\* C5 (as claimed): run_all runs every case exactly once, in suite order,
\* whatever the earlier cases did; in its summary passed + number of failing
\* names = total and the failing names are in suite order; and run_all always
\* ends by producing the summary.
C5_RunAllRunsEveryCase ==
    /\ []C5_Safety
    /\ (hPc = "loop") ~> (hPc = "done")

ExceptionKinds == {"OSError", "FileNotFoundError", "Simulation failed", "cannot reshape",
                   "AssertionError"}
MismatchKinds == {"mismatches", "Shape mismatch"}

\* C6: the steps of a run occur only in the order generate inputs, golden,
\* simulator, compare; a step that raises ends the run as Errored (False
\* returned with the exception's message recorded, which no Passed or Failed
\* run records) and no later step of the run is executed.
C6_StepOrderAndErrored ==
    /\ IsPrefix(hLog, RunSteps)
    /\ RunReturned =>
          /\ hRaised # None =>
                /\ ~LastRun.ret
                /\ LastCase.error_msg.kind \in ExceptionKinds
                /\ hLog[Len(hLog)] \notin {"verify"}
                /\ hRaised = "generate_inputs" => hLog = <<"generate_inputs">>
                /\ hRaised = "run_golden" => hLog = <<"generate_inputs", "run_golden">>
          /\ hRaised = None =>
                /\ hLog = RunSteps
                /\ ~LastRun.ret => LastCase.error_msg.kind \in MismatchKinds

\* C6 witness: a run that ended in run_simulation with the simulator's
\* failure recorded.
C6_Witness ==
    /\ RunReturned
    /\ hRaised = "run_simulation"
    /\ LastCase.error_msg.kind = "Simulation failed"
    /\ hLog = <<"generate_inputs", "run_golden", "run_simulation", "subprocess.run">>

Count(q, x) == Cardinality({i \in 1..Len(q) : q[i] = x})

\* C7 (as claimed): the simulator is invoked at most once per run, and a run
\* whose simulator exited non-zero or did not write C_hw.bin ends as a
\* failure with an exception raised in run_simulation recorded and without a
\* comparison.
C7_SimulatorFailureIsHard ==
    /\ Count(hLog, "subprocess.run") <= 1
    /\ (RunReturned /\ hProc.state = "exited" /\ (hProc.rc # 0 \/ ~hProc.wrote)) =>
          /\ ~LastRun.ret
          /\ hRaised = "run_simulation"
          /\ LastCase.error_msg.kind \in ExceptionKinds
          /\ Count(hLog, "verify") = 0


\* C21 (as claimed): the artifact directory a case's run is given (output_dir
\* / test.name) is the directory of no other case of the suite, so that no
\* run writes or reads the files of another case.
C21_CasesOwnDirectories ==
    \A k \in 1..Len(hRan) : \A j \in 1..Len(hCase) :
        j # hRan[k] => hCase[j].name # hCase[hRan[k]].name

\* What holds: the files of a run are written into and read from the
\* directory named after its case, and no other directory changes.
C21_RunTouchesItsNamedDirectoryOnly ==
    [][\A d \in DOMAIN hFs :
          hFs'[d] # hFs[d] => (hIdx <= Len(hCase) /\ d = hCase[hIdx].name)]_vars

\* ceil(log2(K)) + 1 for K >= 1: one more than the least s with 2^s >= K.
ExpectedShift(K) == (CHOOSE s \in 0..K : 2^s >= K /\ (s = 0 \/ 2^(s - 1) < K)) + 1

\* The current run has written its inputs and computed its golden output.
GoldenComputed == hPc \in {"sim", "simwait", "simret", "verify"}

\* The INT8 matrix [rows, cols] a file of raw row-major bytes holds.
MatrixIn(file, rows, cols) == Int8Tensor(Reshape(FromBytes(file.bytes), rows, cols))

\* C22: for a GEMM case with K >= 1 the shift in test_config.json and the
\* shift passed to the golden GEMM are both ceil(log2(K)) + 1, the scale is 1
\* on both sides, and A.bin and B.bin hold exactly the INT8 arrays A[M,K] and
\* B[K,N] the golden GEMM consumes.
C22_SameProblemBothPaths ==
    GoldenComputed =>
        LET self == hCase[hIdx]
            dir == hFs[self.name]
        IN /\ dir.config = Config(self.M, self.K, self.N, 1, ExpectedShift(self.K))
           /\ hShift = ExpectedShift(self.K)
           /\ dir.A.there /\ Len(dir.A.bytes) = self.M * self.K
           /\ dir.B.there /\ Len(dir.B.bytes) = self.K * self.N
           /\ self.A = MatrixIn(dir.A, self.M, self.K)
           /\ self.B = MatrixIn(dir.B, self.K, self.N)
           /\ hGolden = gemm_golden(MatrixIn(dir.A, self.M, self.K),
                                    MatrixIn(dir.B, self.K, self.N),
                                    dir.config.scale, dir.config.shift,
                                    FALSE, NoTensor).C

\* C22 witness: K = 5, which is not a power of two: the shift is 4 in the
\* file and in the golden call, and A.bin holds the two rows of A, whose
\* elements differ, one after the other.
C22_Witness ==
    /\ GoldenComputed
    /\ hCase[hIdx].K = 5 /\ hCase[hIdx].M = 2
    /\ hShift = 4
    /\ hFs[hCase[hIdx].name].config.shift = 4
    /\ Len(hFs[hCase[hIdx].name].A.bytes) = 10
    /\ hCase[hIdx].A.rows[1][5] # hCase[hIdx].A.rows[2][1]
    /\ hFs[hCase[hIdx].name].A.bytes[6] = hCase[hIdx].A.rows[2][1]
    /\ hFs[hCase[hIdx].name].A.bytes[10] = 127

\* C23 (as claimed): the outcome recorded on a case object is that of its
\* most recent run: passed is true iff that run returned True, and error_msg
\* is empty whenever that run passed, whatever the earlier runs recorded.
C23_OutcomeOfLastRunOnly ==
    \A k \in 1..Len(hDone) :
        LET self == hCase[hDone[k].case]
        IN /\ self.passed = hDone[k].ret
           /\ hDone[k].ret => self.error_msg = EmptyMsg

\* What holds: on a case object that is run for the first time, and what
\* holds always: a run that returned True leaves passed true.
C23_OutcomeOfFirstRun ==
    \A k \in 1..Len(hDone) :
        LET self == hCase[hDone[k].case]
        IN /\ hDone[k].ret => self.passed
           /\ hRuns = 1 =>
                 /\ self.passed = hDone[k].ret
                 /\ hDone[k].ret => self.error_msg = EmptyMsg
-----------------------------------------------------------------------------
(* Claims about the packer and the codec.                                   *)

Packed == pOut.raised = None

RECURSIVE SumNbytes(_)
SumNbytes(tensors) ==
    IF tensors = <<>> THEN 0 ELSE Head(tensors).nbytes + SumNbytes(Tail(tensors))

\* The entries follow one another from 0 with no gap, each as long as its
\* shape says, and together they are the payload.
OffsetsPartition(m, payload) ==
    /\ m # <<>> /\ m[1].offset = 0
    /\ \A i \in 1..(Len(m) - 1) : m[i + 1].offset = m[i].offset + m[i].nbytes
    /\ \A i \in 1..Len(m) : m[i].nbytes = Size(m[i].shape)
    /\ SumNbytes(m) = Len(payload)

\* C8 (as claimed): in every manifest pack writes, the first offset is 0,
\* offset[i+1] = offset[i] + nbytes[i], nbytes[i] is the product of shape[i],
\* the nbytes sum to the payload's length, and the offsets are strictly
\* increasing.
C8_OffsetsStrictlyIncrease ==
    Packed =>
       /\ OffsetsPartition(pOut.manifest, pOut.payload)
       /\ \A i \in 1..(Len(pOut.manifest) - 1) :
             pOut.manifest[i + 1].offset > pOut.manifest[i].offset

\* C8 (amended): in every manifest pack writes, the first offset is 0,
\* offset[i+1] = offset[i] + nbytes[i], nbytes[i] is the product of shape[i],
\* the nbytes sum to the payload's length, and the offsets never decrease:
\* the offset after a tensor is larger exactly when the tensor has at least
\* one element.
C8_OffsetsPartitionPayload ==
    Packed =>
       /\ OffsetsPartition(pOut.manifest, pOut.payload)
       /\ \A i \in 1..(Len(pOut.manifest) - 1) :
             /\ pOut.manifest[i + 1].offset >= pOut.manifest[i].offset
             /\ (pOut.manifest[i + 1].offset > pOut.manifest[i].offset)
                   <=> (Size(pOut.manifest[i].shape) > 0)

\* C8 witness: a manifest of two tensors, the first with elements.
C8_Witness ==
    /\ Packed
    /\ Len(pOut.manifest) = 2
    /\ pOut.manifest[1].nbytes = 2
    /\ pOut.manifest[2].offset = 2
    /\ Len(pOut.payload) > 2

\* C9: unpack of the blob pack wrote succeeds and gives, for every tensor in
\* name order, its name, shape and scale and exactly the INT8 values
\* quantize_int8_symmetric gives for it; and the documented layout (magic,
\* version 1, tensor count, manifest length, manifest, payload from byte
\* 20 + manifest length) sliced at [offset, offset + nbytes) gives the
\* row-major bytes of those values.
C9_UnpackOfPack ==
    uRet.raised # "pending" =>
       LET files == tensor_files(pIn)
           blob == pOut.blob
           manifest_len == blob[17] + 256 * blob[18] + 65536 * blob[19] + 16777216 * blob[20]
           start == 20 + manifest_len
       IN /\ uRet.raised = None
          /\ Len(uRet.tensors) = Len(files)
          /\ SubSeq(blob, 1, 12) = MAGIC \o <<1, 0, 0, 0>>
          /\ SubSeq(blob, 13, 16) = <<Len(files), 0, 0, 0>>
          /\ Len(pOut.manifest) = Len(files)
          /\ \A i \in 1..Len(files) :
                LET r == quantize_int8_symmetric([shape |-> files[i].shape,
                                                  data |-> files[i].data])
                    e == pOut.manifest[i]
                IN /\ uRet.tensors[i] = [name |-> files[i].name, shape |-> files[i].shape,
                                         scale |-> r.scale, data |-> r.q.data]
                   /\ \A k \in 1..Len(r.q.data) :
                         blob[start + e.offset + k] = r.q.data[k] % 256
                   /\ e.nbytes = Len(r.q.data)

\* C9 witness: two tensors unpacked, the second from a non-zero offset with
\* a negative value among its bytes.
C9_Witness ==
    /\ uRet.raised = None
    /\ Len(uRet.tensors) = 2
    /\ pOut.manifest[2].offset > 0
    /\ \E k \in 1..Len(uRet.tensors[2].data) : uRet.tensors[2].data[k] = -127
    /\ Len(uRet.tensors[1].data) = 2 /\ uRet.tensors[1].data[1] # uRet.tensors[1].data[2]

InCodecRange(r) ==
    r.raised = None => \A i \in 1..Len(r.q.data) : r.q.data[i] \in -127..127

\* C10 (as claimed): every value quantize_tensor and quantize_int8_symmetric
\* produce lies in [-127,127], whatever the tensor and whether the scale is
\* computed or supplied: no output element is -128.
C10_CodecNeverMinus128 == InCodecRange(qRet) /\ InCodecRange(sRet)


\* C20: unpack rejects a blob whose first 8 bytes are not the magic or whose
\* version is not 1 before it uses the manifest (whether or not the manifest
\* is there at all), and rejects a blob whose manifest offsets and lengths do
\* not partition the payload exactly; each time it raises a FormatError that
\* names the inconsistency and returns no tensors.
C20_UnpackRejectsDamaged ==
    tIn # NoBlob =>
        /\ tRet.tensors = <<>>
        /\ tIn.kind = "magic" => tRet.raised = "FormatError: magic"
        /\ tIn.kind = "version" => tRet.raised = "FormatError: version"
        /\ tIn.kind \in {"offset", "length", "longer", "shorter"} =>
                tRet.raised = "FormatError: offsets"

\* C20 witness: two tensors packed without a gap, and a payload one byte
\* longer than their lengths account for is rejected.
C20_Witness ==
    /\ tIn.kind = "longer"
    /\ Len(pOut.manifest) = 2 /\ pOut.manifest[2].offset > 0
    /\ uRet.raised = None
    /\ tRet.raised = "FormatError: offsets"
-----------------------------------------------------------------------------
(* Claims about the scales and the round trip of the codec.                 *)

\* num/den > 0
PositiveScale(sc) == (sc.num > 0 /\ sc.den > 0) \/ (sc.num < 0 /\ sc.den < 0)

\* sc = max(|x|)/127, or 1.0 with all-zero values for an all-zero tensor
ComputedScale(x, r) ==
    IF \A i \in 1..Len(x.data) : x.data[i] = 0
    THEN /\ r.scale.num = r.scale.den
         /\ \A i \in 1..Len(r.q.data) : r.q.data[i] = 0
    ELSE r.scale.num * 127 = MaxAbs(x.data) * r.scale.den

\* The scales a call without scale argument computes, and those of a manifest.
C11_ComputedScales ==
    /\ (qRet.raised = None /\ qScale = NoScale) =>
          PositiveScale(qRet.scale) /\ ComputedScale(qX, qRet)
    /\ sRet.raised = None => PositiveScale(sRet.scale) /\ ComputedScale(qX, sRet)
    /\ pOut.raised = None =>
          \A i \in 1..Len(pOut.manifest) :
             LET t == tensor_files(pIn)[i]
             IN /\ PositiveScale(pOut.manifest[i].scale)
                /\ ComputedScale(t, [scale |-> pOut.manifest[i].scale, q |-> pOut.saved[i].q])
    /\ uRet.raised = None =>
          \A i \in 1..Len(uRet.tensors) :
             LET t == tensor_files(pIn)[i]
             IN ComputedScale(t, [scale |-> uRet.tensors[i].scale, q |-> uRet.tensors[i]])

\* C11 (as claimed): every scale quantize returns and every scale of a pack
\* manifest is strictly positive; an omitted scale is computed as
\* max(|x|)/127, and as 1.0 with all-zero values for an all-zero tensor.
C11_ScalesPositive ==
    /\ C11_ComputedScales
    /\ qRet.raised = None => PositiveScale(qRet.scale)

-----------------------------------------------------------------------------
(* Claims about softmax_golden, vec_add_golden, vec_mul_golden and          *)
(* attention_head_golden.                                                   *)

SoftmaxReturned == mRet.raised = None

\* C13: with causal = true every output element of softmax_golden at row i and
\* column j > i is 0, whatever the inputs (a masked entry is never the row
\* maximum), and every output element lies in [0, 127].
C13_CausalSoftmaxMasksUpper ==
    SoftmaxReturned =>
        /\ Rows(mRet.C) = Rows(mIn.x) /\ Cols(mRet.C) = Cols(mIn.x)
        /\ \A i \in 1..Rows(mRet.C) : \A j \in 1..Cols(mRet.C) :
              /\ mRet.C.rows[i][j] \in 0..127
              /\ (mIn.causal /\ j > i) => mRet.C.rows[i][j] = 0

\* C13 witness: the masked entry is the largest input of its row (127 against
\* -128) and comes out as 0, the unmasked one as 127.
C13_Witness ==
    /\ SoftmaxReturned /\ mIn.causal
    /\ mIn.x.rows[1] = <<-128, 127>>
    /\ mRet.C.rows[1] = <<127, 0>>

VecSameShape == vIn.a.shape = vIn.b.shape

\* min(127, max(-128, v))
Saturated(v) == IF v > 127 THEN 127 ELSE IF v < -128 THEN -128 ELSE v

\* C14: for INT8 a and b of the same shape every element of vec_add_golden is
\* min(127, max(-128, a + b)) with a + b the exact sum, which fits in the
\* 16-bit intermediate.
C14_VecAddSaturates ==
    (addRet # VecPending /\ VecSameShape /\ vIn.a.dtype = "int8" /\ vIn.b.dtype = "int8") =>
        /\ addRet.raised = None
        /\ addRet.C.shape = vIn.a.shape
        /\ Len(addRet.C.data) = Len(vIn.a.data)
        /\ \A k \in 1..Len(vIn.a.data) :
              /\ vIn.a.data[k] + vIn.b.data[k] \in -32768..32767
              /\ addRet.C.data[k] = Saturated(vIn.a.data[k] + vIn.b.data[k])

\* C14 witness: 120 + 10 saturates at 127.
C14_Witness ==
    /\ addRet.raised = None /\ VecSameShape
    /\ vIn.a.data = <<120>> /\ vIn.b.data = <<10>>
    /\ addRet.C.data = <<127>>

\* floor(p / 128): the integer f with 128*f <= p < 128*(f+1)
IsFloorDiv128(f, p) == 128 * f <= p /\ p < 128 * (f + 1)

\* C15: for INT8 a and b of the same shape every element of vec_mul_golden is
\* clamp(floor(a*b / 128), -128, 127) with a*b the exact product, which fits
\* in the 16-bit intermediate (-128 * -128 included).
C15_VecMulFloorShift ==
    (mulRet # VecPending /\ VecSameShape /\ vIn.a.dtype = "int8" /\ vIn.b.dtype = "int8") =>
        /\ mulRet.raised = None
        /\ mulRet.C.shape = vIn.a.shape
        /\ Len(mulRet.C.data) = Len(vIn.a.data)
        /\ \A k \in 1..Len(vIn.a.data) :
              /\ vIn.a.data[k] * vIn.b.data[k] \in -32768..32767
              /\ \E f \in -129..128 :
                    /\ IsFloorDiv128(f, vIn.a.data[k] * vIn.b.data[k])
                    /\ mulRet.C.data[k] = Saturated(f)

\* C15 witness: a negative product that is not a multiple of 128 is rounded
\* toward minus infinity (-1 * 1 gives -1, not 0).
C15_Witness ==
    /\ mulRet.raised = None /\ VecSameShape
    /\ vIn.a.data = <<-1>> /\ vIn.b.data = <<1>>
    /\ mulRet.C.data = <<-1>>

\* GEMM(A, B, scale=1, shift) of the specification, for INT8 operands.
Gemm(A, B, shift) == gemm_golden(A, B, 1, shift, FALSE, NoTensor).C

\* GEMM(Softmax(GEMM(q, transpose(k), 1, 4), causal), v, 1, 7)
Composition(x, Wq, Wk, Wv, causal) ==
    LET q == Gemm(x, Wq, 7)
        k == Gemm(x, Wk, 7)
        v == Gemm(x, Wv, 7)
        kT == Int8Tensor([j \in 1..Cols(k) |-> [i \in 1..Rows(k) |-> k.rows[i][j]]])
    IN Gemm(softmax_golden(Gemm(q, kT, 4), causal).C, v, 7)

\* C16: attention_head_golden returns the composition of the three
\* projections (shift 7), the scores q @ k.T (shift 4), the softmax and the
\* context GEMM (shift 7); its shape is [S, D] and it depends on x, the
\* weights and causal only.
C16_AttentionComposition ==
    aRet # KernelPending =>
        /\ aRet.raised = None
        /\ aRet.C = Composition(aIn.x, aIn.w_q, aIn.w_k, aIn.w_v, aIn.causal)
        /\ Rows(aRet.C) = Rows(aIn.x)
        /\ Cols(aRet.C) = Cols(aIn.w_v)
        /\ \A i \in 1..Rows(aRet.C) : Len(aRet.C.rows[i]) = Cols(aIn.w_v)

\* C16 witness: two positions and two output columns, a causal call whose
\* seq_len argument is not the sequence length, with a context that differs
\* between the two positions.
C16_Witness ==
    /\ aRet.raised = None /\ aIn.causal /\ aIn.seq_len = 0
    /\ Rows(aRet.C) = 2 /\ Cols(aRet.C) = 2
    /\ aRet.C.rows[1] # aRet.C.rows[2]
    /\ aRet.C.rows[2][1] # 0

\* The operands of vec_add_golden / vec_mul_golden do not match the signature
\* a[M, N], b[M, N], both INT8.
VecMismatch ==
    \/ vIn.a.shape # vIn.b.shape
    \/ vIn.a.dtype # "int8"
    \/ vIn.b.dtype # "int8"

Rejected(ret) == ret.raised # None /\ ret.C = NoNd

\* C19 (as claimed): a kernel called with operands whose shapes or element
\* types do not match its signature raises and returns no output; nothing is
\* broadcast or coerced (vec_add_golden and vec_mul_golden of a[M, N] with
\* b[N] or b[1, 1] are rejected).
C19_MismatchRejected ==
    /\ (addRet # VecPending /\ VecMismatch) => Rejected(addRet)
    /\ (mulRet # VecPending /\ VecMismatch) => Rejected(mulRet)
    /\ (mRet # KernelPending /\ mIn.x.dtype # "int8") =>
            (mRet.raised # None /\ mRet.C = NoTensor)

\* What holds: operands of another element type, and shapes that numpy cannot
\* broadcast, are rejected.
C19_DtypeAndUnbroadcastableRejected ==
    LET bad == \/ vIn.a.dtype # "int8" \/ vIn.b.dtype # "int8"
               \/ ~CanBroadcast(vIn.a.shape, vIn.b.shape)
    IN /\ (addRet # VecPending /\ bad) => Rejected(addRet)
       /\ (mulRet # VecPending /\ bad) => Rejected(mulRet)
       /\ (mRet # KernelPending /\ mIn.x.dtype # "int8") =>
               (mRet.raised = "AssertionError" /\ mRet.C = NoTensor)

====
